---- MODULE Spec2Model ----
(***************************************************************************)
(* A model of mie-ollama-translate: the browser script (frontend/main.js,  *)
(* kept in src/README.md from line 116 on) and the Node translation        *)
(* backend (src/backend/server.js).                                        *)
(*                                                                         *)
(* Several specifications share the module:                                *)
(*   Spec        the client pipeline: extraction, dispatch, socket, results*)
(*   PageSpec    the client on a page that rewrites the text of a button   *)
(*   CacheSpec   the client's TranslationCache, its methods called freely  *)
(*   InboundSpec the client on a connection delivering malformed frames    *)
(*   RetrySpec   the client on a connection that keeps failing             *)
(*   PurgeSpec   the client on a page that calls clearCache()              *)
(*   CustomSpec  the client on a page that calls applyCustomTranslations() *)
(*   SrvSpec     the server: message handler, work queue, cache, provider  *)
(*   DropSpec    the server with connections that drop, a longer run       *)
(*   SrvFairSpec the server with one connection, under fair scheduling     *)
(*   CoSpec      the mutation coalescer: accumulation, debounce, start/stop*)
(* Each leaves the variables of the other parts at their initial values.   *)
(***************************************************************************)
EXTENDS Integers, Sequences, FiniteSets, TLC

VARIABLES
  \* ---- client (src/README.md) ----
  lang,                \* CONFIG.TARGET_LANGUAGE
  dom,                 \* the text each location shows
  processedTextNodes,  \* ElementProcessor.processedTextNodes
  hashCache,           \* TranslationCache.hashCache  (text -> hash, insertion order)
  cache,               \* TranslationCache.cache      (hash -> translation, insertion order)
  batch,               \* scans / mutation batches suspended at getHash
  sendQueue,           \* SocketManager.sendQueue
  sentHashes,          \* SocketManager.sentHashes
  pendingNodes,        \* SocketManager.pendingNodes
  isConnected,         \* SocketManager.isConnected
  sock,                \* state of SocketManager.socket and of the retry timer
  reconnectAttempts,   \* SocketManager.reconnectAttempts
  wire,                \* the translation_request batches the last step sent
  sentCount,           \* history: batches containing a hash, this connection lifetime
  enqEpoch,            \* history: enqueues of a hash since the last setLanguage
  owed,                \* history: enqueues of a hash minus the batches that contained it
  connSent,            \* history: hashes requested on the current connection
  lateReg,             \* history: locations registered after their hash was on the wire
  events,              \* history: how many events of the environment happened
  lastCall,            \* history: the last call of a TranslationCache method
  applied,             \* history: what the applyTranslation calls of the last step did
  retryDelay,          \* the delay the armed retry timer was set with, 0 when none is armed
  sinceOpen,           \* history: reconnect attempts made since the last onopen
  \* ---- server (src/backend/server.js) ----
  memoryCache,         \* memoryCache: hash -> translation
  translationQueue,    \* the tasks async.queue holds back, in push order
  task,                \* every task pushed: its data and where its worker stands
  processingScheduled, \* async.queue: a setImmediate(process) is outstanding
  ws,                  \* readyState of each connection's socket
  srvOut,              \* the messages the last step sent
  srvEvents,           \* history: how many events of the server's environment happened
  undelivered,         \* history: hashes translated for a connection that had closed
  hitsServed,          \* history: the tasks the last step completed on a cache hit
  \* ---- mutation observer (src/README.md, OptimizedMutationHandler) ----
  observer,            \* OptimizedMutationHandler.observer: TRUE when it holds an observer
  pendingMutations,    \* OptimizedMutationHandler.pendingMutations
  processing,          \* nodesToProcess of the processPendingMutations calls not yet returned
  debounceTimer,       \* OptimizedMutationHandler.debounceTimer: a timer id, 0 for null
  timers,              \* the timeouts that are armed: [id, due]
  now,                 \* the clock
  timeouts,            \* history: how many times setTimeout was called
  burstStart,          \* history: when the first notification after idle came, -1 before
  lastNotify,          \* history: when the last notification came
  received,            \* history: the nodes notified since burstStart
  emitted              \* history: the batches processed since burstStart

clientVars == <<lang, dom, processedTextNodes, hashCache, cache, batch, sendQueue,
                sentHashes, pendingNodes, isConnected, sock, reconnectAttempts,
                wire, sentCount, enqEpoch, owed, connSent, lateReg,
                events, lastCall, applied, retryDelay, sinceOpen>>

srvVars == <<memoryCache, translationQueue, task, processingScheduled, ws, srvOut,
             srvEvents, undelivered, hitsServed>>

coVars == <<observer, pendingMutations, processing, debounceTimer, timers, now, timeouts, burstStart, lastNotify,
            received, emitted>>

vars == <<clientVars, srvVars, coVars>>

-----------------------------------------------------------------------------
(* Bounds of the client model *)
MaxEvents   == 4    \* counted events: scans, inbound messages, language switches, drops
MaxBatches  == 2    \* batches suspended at hashing at the same time
MaxCount    == 2    \* the history counters saturate here
MaxSize     == 2    \* TranslationCache.maxSize
(* Bounds of the server model *)
MaxTasks    == 7    \* tasks pushed to the work queue
MaxSrvEvents == 4   \* connections, messages, closes and provider failures
(* Bounds of the mutation observer model *)
MaxNotifs   == 3    \* calls of handleMutations
MaxTime     == 300  \* the clock stops here

-----------------------------------------------------------------------------
(* Values *)
TRANSLATION_PREFIX == "ZW"
DefaultLang == "te"
Langs == {"te", "es"}
Texts == {<<"Save">>, <<"Open">>}
Translations == {<<"Guardar">>, <<"Abrir">>}
Locs == {"n1", "n2", "b1"}
LocOrder == <<"n1", "n2", "b1">>
Kind(loc) == IF loc = "b1" THEN "content" ELSE "text"

Payload(text, l) == text \o <<"|", l>>
Digest(payload) == payload
Hash(text, l) == Digest(Payload(text, l))
Hashes == {Hash(t, l) : t \in Texts, l \in Langs}

StartsWith(s, p) == Len(s) >= 1 /\ s[1] = p
Prefixed(s) == IF StartsWith(s, TRANSLATION_PREFIX) THEN s ELSE <<TRANSLATION_PREFIX>> \o s

-----------------------------------------------------------------------------
(* A JavaScript Map, in insertion order: a sequence of [k, v] *)
MapHas(m, k) == \E i \in 1..Len(m) : m[i].k = k
MapGet(m, k) == LET i == CHOOSE j \in 1..Len(m) : m[j].k = k IN m[i].v
MapSet(m, k, v) ==
  IF MapHas(m, k)
  THEN [i \in 1..Len(m) |-> IF m[i].k = k THEN [k |-> k, v |-> v] ELSE m[i]]
  ELSE Append(m, [k |-> k, v |-> v])
MapKeys(m) == {m[i].k : i \in 1..Len(m)}

BoundedSetEvictsNewest(m, k, v) ==
  MapSet(IF Len(m) >= MaxSize THEN SubSeq(m, 1, Len(m) - 1) ELSE m, k, v)

(* TranslationCache.setTranslation, and the tail of getHash *)
BoundedSet(m, k, v) ==
  MapSet(IF Len(m) >= MaxSize THEN Tail(m) ELSE m, k, v)
setTranslationKeepsFirst(c, hash, translation) ==
  IF MapHas(c, hash) THEN c ELSE BoundedSet(c, hash, translation)
setTranslation(c, hash, translation) == BoundedSet(c, hash, translation)
memoInsert(hc, text, hash) == BoundedSet(hc, text, hash)

shouldTranslateText(text) ==
  /\ text # <<>>
  /\ ~StartsWith(text, TRANSLATION_PREFIX)
  /\ text \in Texts

-----------------------------------------------------------------------------
(* SocketManager: the dispatch side.  st is the part of the state a batch  *)
(* of applyTranslation calls reads and writes.                             *)
flushQueueKeepsQueue(st) ==
  IF st.sendQueue = <<>> THEN st
  ELSE [st EXCEPT !.out = Append(@, st.sendQueue)]

flushQueue(st) ==
  IF st.sendQueue = <<>> THEN st
  ELSE [st EXCEPT !.sendQueue = <<>>, !.out = Append(@, st.sendQueue)]

SeqAdd(q, r) == IF \E i \in 1..Len(q) : q[i] = r THEN q ELSE Append(q, r)

queueForTranslationNoSentCheck(text, hash, st) ==
  LET s1 == [st EXCEPT
               !.sendQueue = SeqAdd(@, [text |-> text, hash |-> hash,
                                        targetLang |-> lang]),
               !.sentHashes = @ \cup {hash},
               !.enq = Append(@, hash)]
  IN IF isConnected THEN flushQueue(s1) ELSE s1

queueForTranslation(text, hash, st) ==
  IF hash \in st.sentHashes THEN st
  ELSE LET s1 == [st EXCEPT
                    !.sendQueue = SeqAdd(@, [text |-> text, hash |-> hash,
                                             targetLang |-> lang]),
                    !.sentHashes = @ \cup {hash},
                    !.enq = Append(@, hash)]
       IN IF isConnected THEN flushQueue(s1) ELSE s1

registerPending(hash, loc, st) ==
  [st EXCEPT !.pendingNodes[hash] = @ \cup {loc}]

OnWire(hash, st) ==
  /\ hash \in st.sentHashes
  /\ \A i \in 1..Len(st.sendQueue) : st.sendQueue[i].hash # hash

applyTranslationSkipSent(item, st) ==
  IF MapHas(cache, item.hash)
  THEN [st EXCEPT !.dom[item.loc] = MapGet(cache, item.hash),
                  !.hits = @ \cup {item.loc}]
  ELSE IF item.hash \in st.sentHashes
  THEN [st EXCEPT !.dom[item.loc] = <<TRANSLATION_PREFIX>> \o item.text,
                  !.misses = @ \cup {item.loc}]
  ELSE LET s1 == queueForTranslation(item.text, item.hash, st)
           s2 == registerPending(item.hash, item.loc, s1)
       IN [s2 EXCEPT !.dom[item.loc] = <<TRANSLATION_PREFIX>> \o item.text,
                     !.misses = @ \cup {item.loc}]

applyTranslationHitRegisters(item, st) ==
  LET s1 == queueForTranslation(item.text, item.hash, st)
      s2 == registerPending(item.hash, item.loc, s1)
  IN IF MapHas(cache, item.hash)
     THEN [s2 EXCEPT !.dom[item.loc] = MapGet(cache, item.hash),
                     !.hits = @ \cup {item.loc}]
     ELSE [s2 EXCEPT !.dom[item.loc] = <<TRANSLATION_PREFIX>> \o item.text,
                     !.misses = @ \cup {item.loc},
                     !.late = IF OnWire(item.hash, st) THEN @ \cup {item.loc} ELSE @]

applyTranslation(item, st) ==
  IF MapHas(cache, item.hash)
  THEN [st EXCEPT !.dom[item.loc] = MapGet(cache, item.hash),
                  !.hits = @ \cup {item.loc}]
  ELSE LET s1 == queueForTranslation(item.text, item.hash, st)
           s2 == registerPending(item.hash, item.loc, s1)
       IN [s2 EXCEPT !.dom[item.loc] = <<TRANSLATION_PREFIX>> \o item.text,
                     !.misses = @ \cup {item.loc},
                     !.late = IF OnWire(item.hash, st) THEN @ \cup {item.loc} ELSE @]

(* What one applyTranslation call found and left behind *)
Snap(st) == [dom |-> st.dom, sendQueue |-> st.sendQueue, sentHashes |-> st.sentHashes,
             pendingNodes |-> st.pendingNodes, out |-> st.out]
Applied(item, st, s1) ==
  [item |-> item, hit |-> MapHas(cache, item.hash),
   cached |-> IF MapHas(cache, item.hash) THEN MapGet(cache, item.hash) ELSE <<>>,
   before |-> Snap(st), after |-> Snap(s1)]

RECURSIVE applyAll(_, _)
applyAll(items, st) ==
  IF items = <<>> THEN st
  ELSE LET s1 == applyTranslation(Head(items), st)
       IN applyAll(Tail(items),
                   [s1 EXCEPT !.applied = Append(@, Applied(Head(items), st, s1))])

ItemsInOrder(items) ==
  LET F[i \in 0..Len(LocOrder)] ==
        IF i = 0 THEN <<>>
        ELSE LET here == {it \in items : it.loc = LocOrder[i]}
             IN IF here = {} THEN F[i - 1]
                ELSE Append(F[i - 1], CHOOSE it \in here : TRUE)
  IN F[Len(LocOrder)]

St0 == [dom |-> dom, sendQueue |-> sendQueue, sentHashes |-> sentHashes,
        pendingNodes |-> pendingNodes, out |-> <<>>, enq |-> <<>>,
        hits |-> {}, misses |-> {}, late |-> {}, applied |-> <<>>]

processBatch(items) == applyAll(ItemsInOrder(items), St0)

-----------------------------------------------------------------------------
(* History bookkeeping *)
Bump(n) == IF n < MaxCount THEN n + 1 ELSE n
RECURSIVE CountOut(_, _)
CountOut(out, cnt) ==
  IF out = <<>> THEN cnt
  ELSE LET hs == {Head(out)[i].hash : i \in 1..Len(Head(out))}
       IN CountOut(Tail(out), [h \in Hashes |-> IF h \in hs THEN Bump(cnt[h]) ELSE cnt[h]])
BatchHashes(b) == {b[j].hash : j \in 1..Len(b)}
OutHashes(out) == UNION {BatchHashes(out[i]) : i \in 1..Len(out)}

ZeroCount == [h \in Hashes |-> 0]
Times(q, h) == Cardinality({i \in 1..Len(q) : q[i] = h})
Owed(st) ==
  [h \in Hashes |-> owed[h] + Times(st.enq, h)
                     - Cardinality({i \in 1..Len(st.out) : h \in BatchHashes(st.out[i])})]

-----------------------------------------------------------------------------
(* Client: initial state *)
NoKey == <<>>
NoCall == [op |-> "none", key |-> NoKey, value |-> NoKey, old |-> NoKey, evicted |-> NoKey]

BatchIds == 1..MaxBatches
IdleBatch == [active |-> FALSE, todo |-> {}, items |-> {}]

ClientInit ==
  /\ lang = DefaultLang
  /\ dom \in {[loc \in Locs |-> IF loc = "n1" THEN <<"Save">> ELSE t] : t \in Texts}
  /\ processedTextNodes = {}
  /\ hashCache = <<>>
  /\ cache = <<>>
  /\ batch = [b \in BatchIds |-> IdleBatch]
  /\ sendQueue = <<>>
  /\ sentHashes = {}
  /\ pendingNodes = [h \in Hashes |-> {}]
  /\ isConnected = FALSE
  /\ sock = "connecting"
  /\ reconnectAttempts = 0
  /\ wire = <<>>
  /\ sentCount = ZeroCount
  /\ enqEpoch = ZeroCount
  /\ owed = ZeroCount
  /\ connSent = {}
  /\ lateReg = {}
  /\ events = 0
  /\ lastCall = NoCall
  /\ applied = <<>>
  /\ retryDelay = 0
  /\ sinceOpen = 0

(* What a handler that ran a batch of applyTranslation calls leaves behind *)
Commit(st) ==
  /\ dom' = st.dom
  /\ sendQueue' = st.sendQueue
  /\ sentHashes' = st.sentHashes
  /\ pendingNodes' = st.pendingNodes
  /\ wire' = st.out
  /\ sentCount' = CountOut(st.out, sentCount)
  /\ enqEpoch' = [h \in Hashes |-> IF enqEpoch[h] + Times(st.enq, h) < MaxCount
                                    THEN enqEpoch[h] + Times(st.enq, h) ELSE MaxCount]
  /\ owed' = Owed(st)
  /\ connSent' = connSent \cup OutHashes(st.out)
  /\ lateReg' = lateReg \cup st.late
  /\ applied' = st.applied

(* ElementProcessor.processTextNode / processElement up to the await of getHash *)
Candidates(S) ==
  {loc \in S : /\ Kind(loc) = "text" => loc \notin processedTextNodes
               /\ shouldTranslateText(dom[loc])}
Item(loc, hash) == [loc |-> loc, text |-> dom[loc], hash |-> hash]

(* processPendingMutations / scanPage over the candidate locations S: the  *)
(* memo hits resolve in the same task, the misses suspend at the digest.   *)
StartBatch(b, S) ==
  /\ ~batch[b].active
  /\ \A c \in BatchIds : c < b => batch[c].active
  /\ LET cands == Candidates(S)
         hit == {loc \in cands : MapHas(hashCache, dom[loc])}
         hitItems == {Item(loc, MapGet(hashCache, dom[loc])) : loc \in hit}
         todo == {Item(loc, Hash(dom[loc], lang)) : loc \in cands \ hit}
     IN /\ processedTextNodes' =
             processedTextNodes \cup {loc \in hit : Kind(loc) = "text"}
        /\ IF todo = {}
           THEN /\ batch' = batch
                /\ Commit(processBatch(hitItems))
           ELSE /\ batch' = [batch EXCEPT ![b] =
                               [active |-> TRUE, todo |-> todo, items |-> hitItems]]
                /\ Commit(St0)
  /\ UNCHANGED <<retryDelay, sinceOpen>>
  /\ UNCHANGED <<lang, hashCache, cache, isConnected, sock, reconnectAttempts>>

(* getHash resumes after the digest; the batch is applied once its last    *)
(* hash has resolved.                                                      *)
FinishHash(b, t) ==
  /\ batch[b].active
  /\ t \in batch[b].todo
  /\ hashCache' = memoInsert(hashCache, t.text, t.hash)
  /\ processedTextNodes' =
       IF Kind(t.loc) = "text" THEN processedTextNodes \cup {t.loc}
       ELSE processedTextNodes
  /\ LET todo == batch[b].todo \ {t}
         items == batch[b].items \cup {t}
     IN IF todo = {}
        THEN /\ batch' = [batch EXCEPT ![b] = IdleBatch]
             /\ Commit(processBatch(items))
        ELSE /\ batch' = [batch EXCEPT ![b] =
                            [active |-> TRUE, todo |-> todo, items |-> items]]
             /\ Commit(St0)
  /\ UNCHANGED <<retryDelay, sinceOpen>>
  /\ UNCHANGED <<lang, cache, isConnected, sock, reconnectAttempts>>

(* SocketManager.handleMessage, a translation_result *)
resolvePendingFirstOnly(hash, final) ==
  LET first == IF pendingNodes[hash] = {} THEN {}
               ELSE {CHOOSE loc \in pendingNodes[hash] : TRUE}
  IN [dom |-> [loc \in Locs |-> IF loc \in first THEN final ELSE dom[loc]],
      pendingNodes |-> [pendingNodes EXCEPT ![hash] = {}]]

resolvePending(hash, final) ==
  [dom |-> [loc \in Locs |-> IF loc \in pendingNodes[hash] THEN final ELSE dom[loc]],
   pendingNodes |-> [pendingNodes EXCEPT ![hash] = {}]]

OnResult(hash, translated) ==
  /\ sock = "open"
  /\ hash \in connSent
  /\ LET final == Prefixed(translated)
         r == resolvePending(hash, final)
     IN /\ cache' = setTranslation(cache, hash, final)
        /\ dom' = r.dom
        /\ pendingNodes' = r.pendingNodes
  /\ wire' = <<>>
  /\ UNCHANGED <<retryDelay, sinceOpen>>
  /\ applied' = <<>>
  /\ UNCHANGED <<lang, processedTextNodes, hashCache, batch, sendQueue, sentHashes,
                 isConnected, sock, reconnectAttempts, sentCount, enqEpoch, owed, connSent,
                 lateReg>>

(* Inbound frames that are not a well-formed translation_result: text that *)
(* JSON.parse rejects, and translation_result objects with a field missing *)
NoField == <<>>
Malformed ==
  {[parses |-> FALSE, hash |-> NoField, translated |-> NoField]}
    \cup {[parses |-> TRUE, hash |-> h, translated |-> NoField] : h \in Hashes \cup {NoField}}
    \cup {[parses |-> TRUE, hash |-> NoField, translated |-> v] : v \in Translations}

(* socket.onmessage: JSON.parse and handleMessage inside one try block. A  *)
(* missing translated makes translated.startsWith throw before anything is *)
(* written; a missing hash does not throw.                                 *)
OnMalformed(m) ==
  /\ sock = "open"
  /\ IF ~m.parses \/ m.translated = NoField
       THEN UNCHANGED <<cache, dom, pendingNodes>>
       ELSE /\ cache' = setTranslation(cache, m.hash, Prefixed(m.translated))
            /\ IF m.hash \in Hashes
                 THEN LET r == resolvePending(m.hash, Prefixed(m.translated))
                      IN dom' = r.dom /\ pendingNodes' = r.pendingNodes
                 ELSE UNCHANGED <<dom, pendingNodes>>
  /\ wire' = <<>>
  /\ UNCHANGED <<retryDelay, sinceOpen>>
  /\ applied' = <<>>
  /\ UNCHANGED <<lang, processedTextNodes, hashCache, batch, sendQueue, sentHashes,
                 isConnected, sock, reconnectAttempts, sentCount, enqEpoch, owed, connSent,
                 lateReg>>

(* retryConnection: Math.min(1000 * Math.pow(2, reconnectAttempts), 30000) *)
RetryBase == 1000
RetryCap == 30000
RECURSIVE Pow2(_)
Pow2(n) == IF n = 0 THEN 1 ELSE 2 * Pow2(n - 1)
Min(a, b) == IF a <= b THEN a ELSE b
retryConnectionDelay(attempts) == Min(RetryBase * Pow2(attempts), RetryCap)

OnOpenKeepsAttempts ==
  /\ sock = "connecting"
  /\ sock' = "open"
  /\ isConnected' = TRUE
  /\ reconnectAttempts' = reconnectAttempts
  /\ sinceOpen' = 0
  /\ LET st == flushQueue(St0)
     IN /\ sendQueue' = st.sendQueue
        /\ wire' = st.out
        /\ sentCount' = CountOut(st.out, ZeroCount)
        /\ owed' = Owed(st)
        /\ connSent' = OutHashes(st.out)
  /\ applied' = <<>>
  /\ UNCHANGED <<lang, dom, processedTextNodes, hashCache, cache, batch, sentHashes,
                 pendingNodes, enqEpoch, lateReg, retryDelay>>

(* socket.onopen *)
OnOpen ==
  /\ sock = "connecting"
  /\ sock' = "open"
  /\ isConnected' = TRUE
  /\ reconnectAttempts' = 0
  /\ sinceOpen' = 0
  /\ LET st == flushQueue(St0)
     IN /\ sendQueue' = st.sendQueue
        /\ wire' = st.out
        /\ sentCount' = CountOut(st.out, ZeroCount)
        /\ owed' = Owed(st)
        /\ connSent' = OutHashes(st.out)
  /\ applied' = <<>>
  /\ UNCHANGED <<lang, dom, processedTextNodes, hashCache, cache, batch, sentHashes,
                 pendingNodes, enqEpoch, lateReg, retryDelay>>

OnCloseForgetsSent ==
  /\ sock \in {"connecting", "open"}
  /\ sock' = "waiting"
  /\ isConnected' = FALSE
  /\ retryDelay' = retryConnectionDelay(reconnectAttempts)
  /\ UNCHANGED sinceOpen
  /\ sentHashes' = {}
  /\ wire' = <<>>
  /\ applied' = <<>>
  /\ UNCHANGED <<lang, dom, processedTextNodes, hashCache, cache, batch, sendQueue,
                 pendingNodes, reconnectAttempts, sentCount, enqEpoch, owed,
                 connSent, lateReg>>

(* socket.onclose, which arms the retry timer *)
OnClose ==
  /\ sock \in {"connecting", "open"}
  /\ sock' = "waiting"
  /\ isConnected' = FALSE
  /\ retryDelay' = retryConnectionDelay(reconnectAttempts)
  /\ UNCHANGED sinceOpen
  /\ wire' = <<>>
  /\ applied' = <<>>
  /\ UNCHANGED <<lang, dom, processedTextNodes, hashCache, cache, batch, sendQueue,
                 sentHashes, pendingNodes, reconnectAttempts, sentCount, enqEpoch, owed,
                 connSent, lateReg>>

(* the retry timer of retryConnection fires *)
RetryFire ==
  /\ sock = "waiting"
  /\ sock' = "connecting"
  /\ reconnectAttempts' = reconnectAttempts + 1
  /\ retryDelay' = 0
  /\ sinceOpen' = sinceOpen + 1
  /\ wire' = <<>>
  /\ applied' = <<>>
  /\ UNCHANGED <<lang, dom, processedTextNodes, hashCache, cache, batch, sendQueue,
                 sentHashes, pendingNodes, isConnected, sentCount, enqEpoch, owed,
                 connSent, lateReg>>

(* translationSystem.setLanguage, with clearCache *)
SetLanguage(langCode) ==
  /\ lang' = langCode
  /\ cache' = <<>>
  /\ hashCache' = <<>>
  /\ sentHashes' = {}
  /\ enqEpoch' = ZeroCount
  /\ wire' = <<>>
  /\ UNCHANGED <<retryDelay, sinceOpen>>
  /\ applied' = <<>>
  /\ UNCHANGED <<dom, processedTextNodes, batch, sendQueue, pendingNodes, isConnected,
                 sock, reconnectAttempts, sentCount, owed, connSent, lateReg>>

(* the page changes the text of a location *)
EditText(loc, text) ==
  /\ dom[loc] # text
  /\ dom' = [dom EXCEPT ![loc] = text]
  /\ wire' = <<>>
  /\ UNCHANGED <<retryDelay, sinceOpen>>
  /\ applied' = <<>>
  /\ UNCHANGED <<lang, processedTextNodes, hashCache, cache, batch, sendQueue,
                 sentHashes, pendingNodes, isConnected, sock, reconnectAttempts,
                 sentCount, enqEpoch, owed, connSent, lateReg>>

(* TranslationCache.getHash as applyCustomTranslations awaits it: the     *)
(* memo's answer, or the digest of text and language, put into the memo    *)
getHash(hc, text) ==
  IF MapHas(hc, text) THEN [hash |-> MapGet(hc, text), hashCache |-> hc]
  ELSE [hash |-> Hash(text, lang),
        hashCache |-> memoInsert(hc, text, Hash(text, lang))]

(* The two loops of applyCustomTranslations for one {hash, translatedText}:*)
(* every location whose text hashes to hash is set to translatedText as it *)
(* was passed in.                                                          *)
RECURSIVE customWalk(_, _, _, _)
customWalk(locs, hash, translatedText, st) ==
  IF locs = <<>> THEN st
  ELSE LET loc == Head(locs)
           g == getHash(st.hashCache, st.dom[loc])
       IN customWalk(Tail(locs), hash, translatedText,
                     [dom |-> IF g.hash = hash
                                THEN [st.dom EXCEPT ![loc] = translatedText]
                                ELSE st.dom,
                      hashCache |-> g.hashCache])

CustomValues == {<<"Abrir">>, <<TRANSLATION_PREFIX, "Abrir">>}

(* translationSystem.applyCustomTranslations([{hash, translatedText}]),    *)
(* run with no other handler between its awaits: the text nodes in         *)
(* document order, then the text content of the button                     *)
ApplyCustom(hash, translatedText) ==
  /\ cache' = setTranslation(cache, hash, translatedText)
  /\ LET walked == customWalk(LocOrder, hash, translatedText,
                              [dom |-> dom, hashCache |-> hashCache])
         done == customWalk(<<"b1">>, hash, translatedText, walked)
     IN dom' = done.dom /\ hashCache' = done.hashCache
  /\ wire' = <<>>
  /\ applied' = <<>>
  /\ UNCHANGED <<lang, processedTextNodes, batch, sendQueue, sentHashes, pendingNodes,
                 isConnected, sock, reconnectAttempts, sentCount, enqEpoch, owed,
                 connSent, lateReg, retryDelay, sinceOpen>>

(* Scans, inbound messages, language switches and connection drops are    *)
(* counted; a digest resolving, the retry timer and the socket opening     *)
(* are not.                                                                *)
Env ==
  events < MaxEvents /\ events' = events + 1 /\ UNCHANGED <<lastCall, srvVars, coVars>>
Own == UNCHANGED <<events, lastCall, srvVars, coVars>>

ScanSets == {{"n1"}, {"n2"}, {"n1", "n2"}}

ClientNext ==
  \/ \E b \in BatchIds, S \in ScanSets : Env /\ StartBatch(b, S)
  \/ \E b \in BatchIds : \E t \in batch[b].todo : Own /\ FinishHash(b, t)
  \/ \E h \in Hashes : Env /\ OnResult(h, <<"Guardar">>)
  \/ Own /\ OnOpen
  \/ Env /\ OnClose
  \/ Own /\ RetryFire
  \/ \E l \in Langs : Env /\ SetLanguage(l)

-----------------------------------------------------------------------------
(* The server: src/backend/server.js *)

K == 5    \* concurrency of translationQueue

Conns == {"c1", "c2"}
Undefined == <<>>

ReqItem(text, l) == [hash |-> Hash(text, l), text |-> text, targetLang |-> l]
SaveEs == ReqItem(<<"Save">>, "es")
OpenEs == ReqItem(<<"Open">>, "es")
SaveTe == ReqItem(<<"Save">>, "te")

(* The translation_request payloads the connections send. In the third    *)
(* the items do not agree on targetLang.                                   *)
Payloads == {<<SaveEs>>, <<SaveEs, OpenEs>>, <<SaveEs, SaveTe, OpenEs>>}

(* What the provider answers for a text and a language code *)
Answer(text, l) ==
  IF l = "es"
    THEN (IF text = <<"Save">> THEN <<"Guardar">> ELSE <<"Abrir">>)
    ELSE (IF text = <<"Save">> THEN <<"Seiv">> ELSE <<"Open-te">>)

NoItem == [hash |-> <<>>, text |-> <<>>, targetLang |-> ""]
DoneTask == [item |-> NoItem, ws |-> "", targetLang |-> "", pc |-> "done"]
NewTask(item, c, l) == [item |-> item, ws |-> c, targetLang |-> l, pc |-> "queued"]

TaskIds == 1..Len(task)

Result(c, item, translated) ==
  [to |-> c, type |-> "translation_result", hash |-> item.hash, original |-> item.text,
   translated |-> translated, count |-> 0]
Ack(c, n) ==
  [to |-> c, type |-> "ack", hash |-> <<>>, original |-> <<>>, translated |-> <<>>,
   count |-> n]

(* ws.readyState === WebSocket.OPEN guards every result *)
SendIfOpen(c, msg) == IF ws[c] = "open" THEN <<msg>> ELSE <<>>

(* The workers that have not returned. memoryCache is the in-memory store *)
(* of cache-manager: its get and set settle in microtasks of the tick     *)
(* that called them, so a worker is suspended only in translateText.      *)
workersList(tk) == {i \in DOMAIN tk : tk[i].pc = "translate"}
numRunning == Cardinality(workersList(task))

cacheGetAlwaysMiss(mc, h) == Undefined

(* memoryCache.get(item.hash) *)
cacheGet(mc, h) == mc[h]

(* q.process(): while fewer than the concurrency run and the queue is not *)
(* empty, shift a task and call the worker. The worker reads the cache:   *)
(* on a hit it sends the cached translation and returns, which takes it   *)
(* off the workers again; on a miss it calls translateText and suspends.  *)
RECURSIVE processWith(_, _, _, _, _)
processWith(limit, mc, tk, q, out) ==
  IF Len(q) = 0 \/ Cardinality(workersList(tk)) >= limit
    THEN [task |-> tk, queue |-> q, out |-> out]
    ELSE LET i == Head(q)
             cachedTranslation == cacheGet(mc, tk[i].item.hash)
         IN  IF cachedTranslation # Undefined
               THEN processWith(limit, mc, [tk EXCEPT ![i] = DoneTask], Tail(q),
                                out \o SendIfOpen(tk[i].ws,
                                                  Result(tk[i].ws, tk[i].item,
                                                         cachedTranslation)))
               ELSE processWith(limit, mc, [tk EXCEPT ![i].pc = "translate"], Tail(q), out)

processNoLimit(mc, tk, q, out) == processWith(MaxTasks + 1, mc, tk, q, out)

process(mc, tk, q, out) == processWith(K, mc, tk, q, out)

(* The tasks a process() run took from the queue and completed on a hit *)
Hits(tk, q, p) ==
  {[hash |-> tk[j].item.hash, ws |-> tk[j].ws] :
     j \in {q[k] : k \in 1..(Len(q) - Len(p.queue))} \ workersList(p.task)}

CompleteNoProcess(i, mc, out) ==
  /\ task' = [task EXCEPT ![i] = DoneTask]
  /\ translationQueue' = translationQueue
  /\ srvOut' = out
  /\ hitsServed' = {}

(* The worker of task i returns or throws into its catch: the queue's     *)
(* callback takes it off the workers and calls process().                  *)
Complete(i, mc, out) ==
  LET p == process(mc, [task EXCEPT ![i] = DoneTask], translationQueue, out)
  IN  /\ task' = p.task
      /\ translationQueue' = p.queue
      /\ srvOut' = p.out
      /\ hitsServed' = Hits(task, translationQueue, p)

SrvInit ==
  /\ memoryCache = [h \in Hashes |-> Undefined]
  /\ translationQueue = <<>>
  /\ task = <<>>
  /\ processingScheduled = FALSE
  /\ ws = [c \in Conns |-> "none"]
  /\ srvOut = <<>>
  /\ srvEvents = 0
  /\ undelivered = {}
  /\ hitsServed = {}

(* wss.on('connection') *)
Connection(c) ==
  /\ ws[c] = "none"
  /\ ws' = [ws EXCEPT ![c] = "open"]
  /\ srvOut' = <<>>
  /\ hitsServed' = {}
  /\ UNCHANGED <<memoryCache, translationQueue, task, processingScheduled, undelivered>>

(* ws.on('message') with a translation_request *)
batchLang(payload) ==
  IF Len(payload) > 0 /\ payload[1].targetLang # "" THEN payload[1].targetLang ELSE "es"

OnMessage(c, payload) ==
  /\ ws[c] = "open"
  /\ Len(task) + Len(payload) <= MaxTasks
  /\ LET n == Len(task)
         targetLang == batchLang(payload)
     IN  /\ task' = task \o [j \in 1..Len(payload) |-> NewTask(payload[j], c, targetLang)]
         /\ translationQueue' = translationQueue \o [j \in 1..Len(payload) |-> n + j]
  /\ processingScheduled' = (processingScheduled \/ Len(payload) > 0)
  /\ srvOut' = <<Ack(c, Len(payload))>>
  /\ hitsServed' = {}
  /\ UNCHANGED <<memoryCache, ws, undelivered>>

(* The setImmediate callback the first push of a tick scheduled *)
ProcessTick ==
  /\ processingScheduled
  /\ processingScheduled' = FALSE
  /\ LET p == process(memoryCache, task, translationQueue, <<>>)
     IN  /\ task' = p.task /\ translationQueue' = p.queue /\ srvOut' = p.out
         /\ hitsServed' = Hits(task, translationQueue, p)
  /\ UNCHANGED <<memoryCache, ws, undelivered>>

TranslateResolveCachesIfOpen(i) ==
  /\ i \in TaskIds /\ task[i].pc = "translate"
  /\ LET translatedText == Answer(task[i].item.text, task[i].targetLang)
         mc == IF ws[task[i].ws] = "open"
               THEN [memoryCache EXCEPT ![task[i].item.hash] = translatedText]
               ELSE memoryCache
     IN  /\ memoryCache' = mc
         /\ Complete(i, mc, SendIfOpen(task[i].ws,
                                       Result(task[i].ws, task[i].item, translatedText)))
  /\ undelivered' = IF ws[task[i].ws] = "open" THEN undelivered
                    ELSE undelivered \cup {task[i].item.hash}
  /\ UNCHANGED <<processingScheduled, ws>>

(* translateText resolves: the worker stores the translation, sends it if *)
(* the socket is open, and returns                                         *)
TranslateResolve(i) ==
  /\ i \in TaskIds /\ task[i].pc = "translate"
  /\ LET translatedText == Answer(task[i].item.text, task[i].targetLang)
         mc == [memoryCache EXCEPT ![task[i].item.hash] = translatedText]
     IN  /\ memoryCache' = mc
         /\ Complete(i, mc, SendIfOpen(task[i].ws,
                                       Result(task[i].ws, task[i].item, translatedText)))
  /\ undelivered' = IF ws[task[i].ws] = "open" THEN undelivered
                    ELSE undelivered \cup {task[i].item.hash}
  /\ UNCHANGED <<processingScheduled, ws>>

TranslateRejectSendsOriginal(i) ==
  /\ i \in TaskIds /\ task[i].pc = "translate"
  /\ LET mc == [memoryCache EXCEPT ![task[i].item.hash] = task[i].item.text]
     IN  /\ memoryCache' = mc
         /\ Complete(i, mc, SendIfOpen(task[i].ws,
                                       Result(task[i].ws, task[i].item, task[i].item.text)))
  /\ UNCHANGED <<processingScheduled, ws, undelivered>>

(* translateText rejects: the catch block logs, the worker returns *)
TranslateReject(i) ==
  /\ i \in TaskIds /\ task[i].pc = "translate"
  /\ Complete(i, memoryCache, <<>>)
  /\ UNCHANGED <<memoryCache, processingScheduled, ws, undelivered>>

(* ws.on('close') *)
Close(c) ==
  /\ ws[c] = "open"
  /\ ws' = [ws EXCEPT ![c] = "closed"]
  /\ srvOut' = <<>>
  /\ hitsServed' = {}
  /\ UNCHANGED <<memoryCache, translationQueue, task, processingScheduled, undelivered>>

(* Connections, messages, closes and failures of the provider are        *)
(* counted; the queue's own tick and the provider's answers are not.       *)
SrvEnv ==
  srvEvents < MaxSrvEvents /\ srvEvents' = srvEvents + 1 /\ UNCHANGED <<clientVars, coVars>>
SrvOwn == UNCHANGED srvEvents /\ UNCHANGED <<clientVars, coVars>>

SrvNext ==
  \/ \E c \in Conns : SrvEnv /\ Connection(c)
  \/ \E c \in Conns, payload \in Payloads : SrvEnv /\ OnMessage(c, payload)
  \/ SrvOwn /\ ProcessTick
  \/ \E i \in 1..MaxTasks : SrvOwn /\ TranslateResolve(i)
  \/ \E i \in 1..MaxTasks : SrvEnv /\ TranslateReject(i)
  \/ \E c \in Conns : SrvEnv /\ Close(c)

-----------------------------------------------------------------------------
(* The mutation observer: OptimizedMutationHandler in src/README.md *)

DEBOUNCE_DELAY == 100    \* CONFIG.DEBOUNCE_DELAY

(* What one call of handleMutations carries: the added nodes and the      *)
(* targets of its mutation records (none when nodes were only removed)    *)
Notifications == SUBSET Locs

(* How far the clock moves between two events *)
Steps == {25, 50}

handleMutationsKeepsLast(pm, nodes) == nodes

(* handleMutations: pendingMutations.add for every node of the records *)
handleMutations(pm, nodes) == pm \cup nodes

clearTimeout(tm, handle) == {t \in tm : t.id # handle}

scheduleProcessingNoClear(tm, handle, id) ==
  tm \cup {[id |-> id, due |-> now + DEBOUNCE_DELAY]}

(* scheduleProcessing: clear the timer the field holds, set a new one *)
scheduleProcessing(tm, handle, id) ==
  clearTimeout(tm, handle) \cup {[id |-> id, due |-> now + DEBOUNCE_DELAY]}

CoInit ==
  /\ observer = FALSE
  /\ pendingMutations = {}
  /\ processing = <<>>
  /\ debounceTimer = 0
  /\ timers = {}
  /\ now = 0
  /\ timeouts = 0
  /\ burstStart = -1
  /\ lastNotify = -1
  /\ received = {}
  /\ emitted = <<>>

(* The MutationObserver callback: handleMutations, then scheduleProcessing *)
Notify(nodes) ==
  /\ observer
  /\ timeouts < MaxNotifs
  /\ pendingMutations' = handleMutations(pendingMutations, nodes)
  /\ timers' = scheduleProcessing(timers, debounceTimer, timeouts + 1)
  /\ debounceTimer' = timeouts + 1
  /\ timeouts' = timeouts + 1
  /\ lastNotify' = now
  /\ IF timers = {}
       THEN burstStart' = now /\ received' = nodes /\ emitted' = <<>>
       ELSE received' = received \cup nodes /\ UNCHANGED <<burstStart, emitted>>
  /\ UNCHANGED <<observer, processing, now>>

FireKeepsPending(t) ==
  /\ t \in timers /\ t.due <= now
  /\ timers' = timers \ {t}
  /\ IF pendingMutations = {}
       THEN UNCHANGED <<pendingMutations, processing, emitted>>
       ELSE LET nodesToProcess == pendingMutations
            IN  /\ pendingMutations' = pendingMutations
                /\ processing' = Append(processing, nodesToProcess)
                /\ emitted' = Append(emitted, nodesToProcess)
  /\ UNCHANGED <<observer, debounceTimer, now, timeouts, burstStart, lastNotify, received>>

(* The timeout callback: processPendingMutations up to its first await,    *)
(* with nodesToProcess handed over and the accumulation set cleared        *)
Fire(t) ==
  /\ t \in timers /\ t.due <= now
  /\ timers' = timers \ {t}
  /\ IF pendingMutations = {}
       THEN UNCHANGED <<pendingMutations, processing, emitted>>
       ELSE LET nodesToProcess == pendingMutations
            IN  /\ pendingMutations' = {}
                /\ processing' = Append(processing, nodesToProcess)
                /\ emitted' = Append(emitted, nodesToProcess)
  /\ UNCHANGED <<observer, debounceTimer, now, timeouts, burstStart, lastNotify, received>>

(* A processPendingMutations call returns: its extraction and its          *)
(* processBatch have settled                                               *)
Processed(i) ==
  /\ i \in 1..Len(processing)
  /\ processing' = [j \in 1..(Len(processing) - 1) |->
                      IF j < i THEN processing[j] ELSE processing[j + 1]]
  /\ UNCHANGED <<observer, pendingMutations, debounceTimer, timers, now, timeouts,
                 burstStart, lastNotify, received, emitted>>

(* Time passes, up to the next timeout that is due *)
NextDue(d) ==
  LET dues == {t.due : t \in timers} \cup {now + d}
  IN  CHOOSE m \in dues : \A x \in dues : m <= x

Tick(d) ==
  /\ \A t \in timers : t.due > now
  /\ NextDue(d) <= MaxTime
  /\ now' = NextDue(d)
  /\ UNCHANGED <<observer, pendingMutations, processing, debounceTimer, timers, timeouts,
                 burstStart, lastNotify, received, emitted>>

CoRest ==
  UNCHANGED <<pendingMutations, processing, debounceTimer, timers, now, timeouts, burstStart, lastNotify,
              received, emitted>>

(* OptimizedMutationHandler.start, as translationSystem.start calls it *)
Start ==
  /\ ~observer
  /\ observer' = TRUE
  /\ CoRest

(* OptimizedMutationHandler.stop, as translationSystem.stop calls it *)
Stop ==
  /\ observer
  /\ observer' = FALSE
  /\ CoRest

CoIdle == UNCHANGED <<clientVars, srvVars>>

CoNext ==
  \/ \E nodes \in Notifications : Notify(nodes) /\ CoIdle
  \/ \E t \in timers : Fire(t) /\ CoIdle
  \/ \E d \in Steps : Tick(d) /\ CoIdle
  \/ Start /\ CoIdle
  \/ Stop /\ CoIdle
  \/ \E i \in 1..Len(processing) : Processed(i) /\ CoIdle

-----------------------------------------------------------------------------
(* Specifications *)

ClientIdle ==
  /\ ClientInit
  /\ dom = [loc \in Locs |-> <<"Save">>]

Init == ClientInit /\ SrvInit /\ CoInit
Next == ClientNext
Spec == Init /\ [][Next]_vars

SrvSpecInit == ClientIdle /\ SrvInit /\ CoInit
SrvSpec == SrvSpecInit /\ [][SrvNext]_vars

(* The server with one client that sends batches of one and of three     *)
(* items. Every provider call resolves or rejects, and the event loop     *)
(* runs the callbacks it holds.                                            *)
FairConns == {"c1"}
FairPayloads == {<<SaveEs>>, <<SaveEs, SaveTe, OpenEs>>}

SrvFairNext ==
  \/ \E c \in FairConns : SrvEnv /\ Connection(c)
  \/ \E c \in FairConns, payload \in FairPayloads : SrvEnv /\ OnMessage(c, payload)
  \/ SrvOwn /\ ProcessTick
  \/ \E i \in 1..MaxTasks : SrvOwn /\ TranslateResolve(i)
  \/ \E i \in 1..MaxTasks : SrvEnv /\ TranslateReject(i)
  \/ \E c \in FairConns : SrvEnv /\ Close(c)

SrvFairness ==
  /\ WF_vars(SrvOwn /\ ProcessTick)
  /\ \A i \in 1..MaxTasks :
       WF_vars(\/ SrvOwn /\ TranslateResolve(i)
               \/ SrvEnv /\ TranslateReject(i))
SrvFairSpec == SrvSpecInit /\ [][SrvFairNext]_vars /\ SrvFairness

(* The server with connections that drop while their items are with the   *)
(* provider: one-item and two-item batches, a longer run of events         *)
MaxDropEvents == 5
DropPayloads == {<<SaveEs>>, <<SaveEs, OpenEs>>}
DropEnv ==
  srvEvents < MaxDropEvents /\ srvEvents' = srvEvents + 1 /\ UNCHANGED <<clientVars, coVars>>
DropNext ==
  \/ \E c \in Conns : DropEnv /\ Connection(c)
  \/ \E c \in Conns, payload \in DropPayloads : DropEnv /\ OnMessage(c, payload)
  \/ SrvOwn /\ ProcessTick
  \/ \E i \in 1..MaxTasks : SrvOwn /\ TranslateResolve(i)
  \/ \E c \in Conns : DropEnv /\ Close(c)

DropSpec == SrvSpecInit /\ [][DropNext]_vars

(* The client on a page that rewrites the text of a button *)
PageScanSets == {{"b1"}, {"n1", "b1"}}

PageNext ==
  \/ \E b \in BatchIds, S \in PageScanSets : Env /\ StartBatch(b, S)
  \/ \E b \in BatchIds : \E t \in batch[b].todo : Own /\ FinishHash(b, t)
  \/ \E h \in Hashes : Env /\ OnResult(h, <<"Guardar">>)
  \/ Own /\ OnOpen
  \/ \E text \in Texts : Env /\ EditText("b1", text)

PageSpec == Init /\ [][PageNext]_vars

(* TranslationCache on its own: its methods called in any order, as       *)
(* processTextNode, applyTranslation, handleMessage,                       *)
(* applyCustomTranslations and setLanguage call them                       *)
(* The client on a connection that keeps failing: every close arms the     *)
(* retry timer, up to MaxAttempts consecutive attempts                     *)
MaxAttempts == 6
RetryOwn == UNCHANGED <<events, lastCall, srvVars, coVars>>
RetryNext ==
  \/ \E b \in BatchIds : Env /\ StartBatch(b, {"n1", "n2"})
  \/ \E b \in BatchIds : \E t \in batch[b].todo : Own /\ FinishHash(b, t)
  \/ Own /\ OnOpen
  \/ reconnectAttempts < MaxAttempts /\ RetryOwn /\ OnClose
  \/ Own /\ RetryFire

RetrySpec == Init /\ [][RetryNext]_vars

(* The client on a connection that also delivers malformed frames *)
InboundNext ==
  \/ \E b \in BatchIds, S \in ScanSets : Env /\ StartBatch(b, S)
  \/ \E b \in BatchIds : \E t \in batch[b].todo : Own /\ FinishHash(b, t)
  \/ \E h \in Hashes : Env /\ OnResult(h, <<"Guardar">>)
  \/ \E m \in Malformed : Env /\ OnMalformed(m)
  \/ Own /\ OnOpen

InboundSpec == Init /\ [][InboundNext]_vars

CacheTexts == Texts \cup {<<"Close">>}
CacheValues == {Prefixed(t) : t \in Translations}
CacheEnv ==
  events < MaxEvents /\ events' = events + 1 /\ UNCHANGED <<srvVars, coVars>>
CacheRest ==
  UNCHANGED <<lang, dom, processedTextNodes, batch, sendQueue, sentHashes, pendingNodes,
              isConnected, sock, reconnectAttempts, wire, sentCount, enqEpoch, owed,
              connSent, lateReg, applied, retryDelay, sinceOpen>>

Evicted(m) == IF Len(m) >= MaxSize THEN m[1].k ELSE NoKey

(* getHash(text), the digest included *)
CallGetHash(text) ==
  /\ IF MapHas(hashCache, text)
       THEN /\ hashCache' = hashCache
            /\ lastCall' = [NoCall EXCEPT !.op = "getHash", !.key = text]
       ELSE /\ hashCache' = memoInsert(hashCache, text, Hash(text, lang))
            /\ lastCall' = [op |-> "getHash", key |-> text, value |-> Hash(text, lang),
                             old |-> NoKey, evicted |-> Evicted(hashCache)]
  /\ UNCHANGED cache
  /\ CacheRest

(* setTranslation(hash, translation) *)
CallSetTranslation(hash, translation) ==
  /\ cache' = setTranslation(cache, hash, translation)
  /\ lastCall' = [op |-> "setTranslation", key |-> hash, value |-> translation,
                   old |-> IF MapHas(cache, hash) THEN MapGet(cache, hash) ELSE NoKey,
                   evicted |-> Evicted(cache)]
  /\ UNCHANGED hashCache
  /\ CacheRest

(* hasTranslation(hash) / getTranslation(hash) *)
CallGetTranslation(hash) ==
  /\ lastCall' = [NoCall EXCEPT !.op = "getTranslation", !.key = hash]
  /\ UNCHANGED <<hashCache, cache>>
  /\ CacheRest

(* translationSystem.clearCache *)
ClearCache ==
  /\ cache' = <<>>
  /\ hashCache' = <<>>
  /\ lastCall' = [NoCall EXCEPT !.op = "clearCache"]
  /\ CacheRest

CacheNext ==
  \/ \E text \in CacheTexts : CacheEnv /\ CallGetHash(text)
  \/ \E text \in CacheTexts, v \in CacheValues :
       CacheEnv /\ CallSetTranslation(Hash(text, lang), v)
  \/ \E text \in CacheTexts : CacheEnv /\ CallGetTranslation(Hash(text, lang))
  \/ \E l \in Langs :
       CacheEnv /\ SetLanguage(l) /\ lastCall' = [NoCall EXCEPT !.op = "setLanguage"]
  \/ CacheEnv /\ ClearCache

CacheSpec == SrvSpecInit /\ [][CacheNext]_vars

(* The client with clearCache() called from the page *)
PurgeNext ==
  \/ \E b \in BatchIds, S \in ScanSets : Env /\ StartBatch(b, S)
  \/ \E b \in BatchIds : \E t \in batch[b].todo : Own /\ FinishHash(b, t)
  \/ \E h \in Hashes : Env /\ OnResult(h, <<"Guardar">>)
  \/ Own /\ OnOpen
  \/ CacheEnv /\ ClearCache

PurgeSpec == Init /\ [][PurgeNext]_vars

(* The client with applyCustomTranslations() called from the page *)
CustomNext ==
  \/ \E b \in BatchIds, S \in PageScanSets : Env /\ StartBatch(b, S)
  \/ \E b \in BatchIds : \E t \in batch[b].todo : Own /\ FinishHash(b, t)
  \/ \E h \in Hashes : Env /\ OnResult(h, <<"Guardar">>)
  \/ Own /\ OnOpen
  \/ \E h \in Hashes, v \in CustomValues : Env /\ ApplyCustom(h, v)

CustomSpec == Init /\ [][CustomNext]_vars

CoSpecInit == ClientIdle /\ SrvInit /\ CoInit
CoSpec == CoSpecInit /\ [][CoNext]_vars

-----------------------------------------------------------------------------
(* Claims about the client *)

(* C1, as stated: for every hash H the number of outbound                  *)
(* translation_request batches that contain H during one connection        *)
(* lifetime is at most 1.                                                  *)
C1_AtMostOncePerConnection == \A h \in Hashes : sentCount[h] <= 1

(* C1, amended: between two consecutive setLanguage calls every hash H is  *)
(* added to the outbound queue at most once, however many locations        *)
(* request it and across reconnects, and every batch that contains H sends *)
(* a queued request for H that no earlier batch sent.  setLanguage empties *)
(* the sent set but not the outbound queue, so after it H can be queued    *)
(* and sent again within the same connection lifetime.                     *)
C1_AtMostOncePerLanguageEpoch ==
  \A h \in Hashes : enqEpoch[h] <= 1 /\ owed[h] >= 0

C1_Witness ==
  \E h \in Hashes :
    enqEpoch[h] = 1 /\ sentCount[h] = 1 /\ pendingNodes[h] = {"n1", "n2"}

(* C2: the step that handles a translation_result for hash H writes the    *)
(* result's translation (with the marker prefix) to every location that    *)
(* was in the pending set of H and removes the pending entry of H.         *)
C2_FanOutOnResult ==
  [][\A h \in Hashes, v \in Translations :
       OnResult(h, v) =>
         /\ \A loc \in pendingNodes[h] : dom'[loc] = Prefixed(v)
         /\ pendingNodes'[h] = {}
         /\ MapHas(cache', h) /\ MapGet(cache', h) = Prefixed(v)]_vars

C2_Witness ==
  /\ events = 2
  /\ dom["n1"] = <<TRANSLATION_PREFIX, "Guardar">>
  /\ dom["n2"] = <<TRANSLATION_PREFIX, "Guardar">>
  /\ \A h \in Hashes : pendingNodes[h] = {}

(* C3: a location dispatched on a cache miss is registered pending for its *)
(* hash also when the request for that hash was sent before, and a pending *)
(* location stays registered until the step that handles a result for its  *)
(* hash, which writes that result to it.                                   *)
C3_Dispatched(items) ==
  \A it \in items :
    ~MapHas(cache, it.hash) => it.loc \in pendingNodes'[it.hash]

C3_PendingUntilResult ==
  [][/\ \A h \in Hashes, loc \in Locs :
          loc \in pendingNodes[h] =>
            \/ loc \in pendingNodes'[h]
            \/ \E v \in Translations : OnResult(h, v) /\ dom'[loc] = Prefixed(v)
     /\ \A b \in BatchIds : \A t \in batch[b].todo :
          FinishHash(b, t) /\ batch[b].todo = {t} => C3_Dispatched(batch[b].items \cup {t})
     /\ \A b \in BatchIds, S \in ScanSets :
          StartBatch(b, S) /\ ~batch'[b].active =>
            C3_Dispatched({Item(loc, MapGet(hashCache, dom[loc])) :
                          loc \in {c \in Candidates(S) : MapHas(hashCache, dom[c])}})
    ]_vars

C3_Witness ==
  \E loc \in lateReg :
    /\ \A h \in Hashes : loc \notin pendingNodes[h]
    /\ dom[loc] = <<TRANSLATION_PREFIX, "Guardar">>

-----------------------------------------------------------------------------
(* Claims about the server *)

(* C4: in every reachable state of the server at most K = 5 calls of       *)
(* translateText are in flight, whatever the connections send and in       *)
(* whatever order the calls settle.                                        *)
C4_BoundedConcurrency == numRunning <= K

C4_Witness == numRunning = K /\ Len(translationQueue) >= 1

C5_InOut(msg) == \E k \in 1..Len(srvOut') : srvOut'[k] = msg

(* C5, as stated: an item whose hash is in the server cache when its batch *)
(* is received is answered by that very step on the same connection and   *)
(* is not put on the work queue.                                           *)
C5_HitServedAtReceipt ==
  [][\A c \in Conns, payload \in Payloads :
       OnMessage(c, payload) =>
         \A j \in 1..Len(payload) :
           memoryCache[payload[j].hash] # Undefined =>
             /\ C5_InOut(Result(c, payload[j], memoryCache[payload[j].hash]))
             /\ \A k \in 1..Len(translationQueue') :
                  translationQueue'[k] # Len(task) + j]_vars

(* C5, amended: receiving a batch puts every item on the work queue,       *)
(* cached or not, and sends only the ack. When the queue starts an item's  *)
(* task and the cache holds the item's hash at that moment, the cached     *)
(* translation is sent on the item's connection if it is open, the task    *)
(* completes and no provider call is made; only a miss at that moment      *)
(* leads to a provider call.                                               *)
C5_HitServedAtAdmission ==
  [][/\ \A c \in Conns, payload \in Payloads :
          OnMessage(c, payload) =>
            /\ srvOut' = <<Ack(c, Len(payload))>>
            /\ \A j \in 1..Len(payload) :
                 /\ task'[Len(task) + j].item = payload[j]
                 /\ task'[Len(task) + j].pc = "queued"
                 /\ \E k \in 1..Len(translationQueue') :
                      translationQueue'[k] = Len(task) + j
     /\ \A j \in 1..MaxTasks :
          (j \in TaskIds /\ task[j].pc = "queued" /\ task'[j].pc # "queued") =>
            IF memoryCache'[task[j].item.hash] # Undefined
              THEN /\ task'[j].pc = "done"
                   /\ ws[task[j].ws] = "open" =>
                        C5_InOut(Result(task[j].ws, task[j].item,
                                        memoryCache'[task[j].item.hash]))
              ELSE task'[j].pc = "translate"]_vars

(* A completion admitted a waiting task whose hash was cached: its result  *)
(* follows the one of the task that completed.                             *)
C5_Witness ==
  /\ Len(srvOut) >= 2
  /\ srvOut[1].type = "translation_result"
  /\ srvOut[2].type = "translation_result"

(* C6, as stated: no two provider calls for the same hash are in flight at *)
(* the same time, and none is in flight for a hash the cache holds.        *)
C6_AtMostOneCallPerHash ==
  \A i \in workersList(task) :
    /\ memoryCache[task[i].item.hash] = Undefined
    /\ \A j \in workersList(task) : i # j => task[i].item.hash # task[j].item.hash

C7_Hits(c) ==
  Cardinality({j \in TaskIds : /\ task[j].pc = "queued" /\ task'[j].pc = "done"
                              /\ task[j].ws = c})
C7_Results(c) ==
  Cardinality({k \in 1..Len(srvOut') : /\ srvOut'[k].type = "translation_result"
                                      /\ srvOut'[k].to = c})
C7_IfOpen(c, n) == IF ws[c] = "open" THEN n ELSE 0
C7_Own(i, c) == IF task[i].ws = c THEN 1 ELSE 0

(* C7, as stated: a failed provider call writes nothing to the cache and   *)
(* sends no result, the queue goes on, and each step sends exactly one     *)
(* result per task it completes on a cache hit plus one for the task whose *)
(* provider call succeeded.                                                *)
C7_OneResultPerHitOrSuccess ==
  [][\A c \in Conns :
       /\ \A i \in 1..MaxTasks :
            /\ TranslateReject(i) =>
                 /\ memoryCache' = memoryCache
                 /\ task'[i].pc = "done"
                 /\ C7_Results(c) = C7_Hits(c)
            /\ TranslateResolve(i) => C7_Results(c) = C7_Own(i, c) + C7_Hits(c)
       /\ ProcessTick => C7_Results(c) = C7_Hits(c)]_vars

(* C7, amended: a failed provider call writes nothing to the cache and     *)
(* sends no result for its task, its slot is released and the head of the  *)
(* queue is started; each step sends to a connection exactly one result    *)
(* per task of that connection it completes on a cache hit plus one for    *)
(* the task whose provider call succeeded, provided the connection is      *)
(* open at that moment, and none if it is not.                             *)
C7_FailureContained ==
  [][\A c \in Conns :
       /\ \A i \in 1..MaxTasks :
            /\ TranslateReject(i) =>
                 /\ memoryCache' = memoryCache
                 /\ task'[i].pc = "done"
                 /\ Len(translationQueue) > 0 => task'[Head(translationQueue)].pc # "queued"
                 /\ C7_Results(c) = C7_IfOpen(c, C7_Hits(c))
            /\ TranslateResolve(i) =>
                 C7_Results(c) = C7_IfOpen(c, C7_Own(i, c) + C7_Hits(c))
       /\ ProcessTick => C7_Results(c) = C7_IfOpen(c, C7_Hits(c))]_vars

(* A provider call failed while a task waited: the cache is empty, the     *)
(* sixth task holds the slot the failure released.                         *)
C7_Witness ==
  /\ Len(task) >= 6
  /\ task[6].pc = "translate"
  /\ \E i \in 1..5 : task[i].pc = "done"
  /\ \A h \in Hashes : memoryCache[h] = Undefined
  /\ srvOut = <<>>

(* C8: if every provider call resolves or rejects, every task pushed to    *)
(* the queue is started and completes, whichever way the earlier ones end: *)
(* the connections send finitely many batches, so from some point on every *)
(* task that was pushed has completed, the ones that waited beyond the     *)
(* fifth included.                                                         *)
C8_EveryTaskCompletes == <>[](\A i \in TaskIds : task[i].pc = "done")

C8_Witness ==
  /\ Len(task) = 7
  /\ task[6].pc = "translate" /\ task[7].pc = "translate"
  /\ numRunning = K

-----------------------------------------------------------------------------
(* Claims about the mutation observer *)

C9_Idle == timers = {} /\ burstStart >= 0

(* C9: every node handleMutations added before a timeout fires is in the   *)
(* batch that fire hands over, and the accumulation set is empty right     *)
(* after; a burst of notifications that all arrive within less than one    *)
(* DEBOUNCE_DELAY produces exactly one batch, which holds all their nodes. *)
C9_NothingLost ==
  /\ [][\A t \in timers : (Fire(t) /\ pendingMutations # {}) =>
          /\ emitted' = Append(emitted, pendingMutations)
          /\ received \subseteq pendingMutations \cup UNION {emitted[k] : k \in 1..Len(emitted)}
          /\ pendingMutations' = {}]_vars
  /\ [](pendingMutations \subseteq received)
  /\ []((C9_Idle /\ lastNotify - burstStart < DEBOUNCE_DELAY /\ received # {}) =>
          emitted = <<received>>)

(* Three notifications within 50 units, one batch with the nodes of all *)
C9_Witness ==
  /\ C9_Idle
  /\ timeouts = 3
  /\ lastNotify = burstStart + 50
  /\ emitted = <<{"n1", "n2", "b1"}>>

(* C10, as stated: the timer is armed on the first notification of a cycle *)
(* only, so whenever a timer is armed it is due one DEBOUNCE_DELAY after   *)
(* that first notification.                                                *)
C10_DueAfterFirstNotification ==
  \A t \in timers : t.due = burstStart + DEBOUNCE_DELAY

(* C10, amended: every notification cancels the armed timer and arms a new *)
(* one, so at most one timer is armed and it is due one DEBOUNCE_DELAY     *)
(* after the last notification; notifications spaced closer than that      *)
(* postpone the hand-over for as long as they keep coming.                 *)
C10_DueAfterLastNotification ==
  /\ Cardinality(timers) <= 1
  /\ \A t \in timers : t.id = debounceTimer /\ t.due = lastNotify + DEBOUNCE_DELAY

(* More than one DEBOUNCE_DELAY after the first notification its node is   *)
(* still waiting, and the timer is due later still                         *)
C10_Witness ==
  /\ burstStart >= 0
  /\ now > burstStart + DEBOUNCE_DELAY
  /\ pendingMutations # {}
  /\ emitted = <<>>
  /\ \E t \in timers : t.due > now

-----------------------------------------------------------------------------
(* Claims about the client: outbound queue and reconnects *)

C11_IsPrefix(q, r) == Len(q) <= Len(r) /\ \A i \in 1..Len(q) : r[i] = q[i]

(* C11: while the socket is not connected nothing is sent and no queued    *)
(* request is dropped; the onopen handler sends the whole queue as one     *)
(* translation_request and leaves it empty; while connected the queue is   *)
(* empty after every step, each request having been sent by the step that  *)
(* queued it.                                                              *)
C11_AccumulateThenFlush ==
  /\ [](isConnected => sendQueue = <<>>)
  /\ [][/\ (~isConnected /\ ~OnOpen) =>
            wire' = <<>> /\ C11_IsPrefix(sendQueue, sendQueue')
        /\ OnOpen =>
            /\ sendQueue' = <<>>
            /\ wire' = IF sendQueue = <<>> THEN <<>> ELSE <<sendQueue>>
        /\ isConnected =>
            \A h \in sentHashes' \ sentHashes : h \in OutHashes(wire')]_vars

(* Two requests queued while connecting went out as one batch on open *)
C11_Witness ==
  /\ isConnected
  /\ Len(wire) = 1
  /\ Len(wire[1]) = 2
  /\ sendQueue = <<>>

-----------------------------------------------------------------------------
(* Claims about the client: hashing and extraction *)

(* C13, as stated: whatever getHash returns for a text is the identifier   *)
(* of that text and the language in force, so every entry the memo would   *)
(* answer with maps its text to the hash of (text, CONFIG.TARGET_LANGUAGE).*)
C13_HashOfCurrentLanguage ==
  \A i \in 1..Len(hashCache) : hashCache[i].v = Hash(hashCache[i].k, lang)

(* C14, as stated: a location is in the pending set of at most one hash *)
C14_PendingExclusive ==
  \A loc \in Locs : Cardinality({h \in Hashes : loc \in pendingNodes[h]}) <= 1

-----------------------------------------------------------------------------
(* Claims about the client: results and the two maps *)

C15_Entries(m) == {m[i] : i \in 1..Len(m)}

(* C15, as stated: a translation_result for a hash whose result was        *)
(* already handled (the cache holds that value, nothing is pending for the *)
(* hash) changes no location, no pending set and no entry of the cache.    *)
C15_ResolveIdempotent ==
  [][\A h \in Hashes, v \in Translations :
       (/\ OnResult(h, v)
        /\ MapHas(cache, h) /\ MapGet(cache, h) = Prefixed(v)
        /\ pendingNodes[h] = {}) =>
         /\ dom' = dom
         /\ pendingNodes' = pendingNodes
         /\ C15_Entries(cache') = C15_Entries(cache)]_vars

(* C16, as stated: at most one TranslatableItem is ever emitted for a      *)
(* location, so no two batches hold an item of the same location.          *)
C16_OneItemPerLocation ==
  \A loc \in Locs :
    Cardinality({b \in BatchIds : \E it \in batch[b].items : it.loc = loc}) <= 1

(* C17: both maps of the client's TranslationCache hold at most MaxSize   *)
(* entries in every reachable state; a call that inserts a key the map     *)
(* does not hold, when the map is at capacity, removes exactly the entry   *)
(* inserted earliest and puts the new key last, below capacity it only     *)
(* appends; a read (a memo hit of getHash, getTranslation) changes neither *)
(* the contents nor the order of either map, so eviction is FIFO, not LRU. *)
C17_Called(op, key) ==
  events' = events + 1 /\ lastCall'.op = op /\ lastCall'.key = key
C17_FifoInsert(m, n, k) ==
  /\ Len(n) = IF Len(m) >= MaxSize THEN Len(m) ELSE Len(m) + 1
  /\ n[Len(n)].k = k
  /\ SubSeq(n, 1, Len(n) - 1) = IF Len(m) >= MaxSize THEN Tail(m) ELSE m
C17_Step ==
  /\ \A text \in CacheTexts :
       C17_Called("getHash", text) =>
         IF MapHas(hashCache, text)
         THEN hashCache' = hashCache /\ cache' = cache
         ELSE C17_FifoInsert(hashCache, hashCache', text) /\ cache' = cache
  /\ \A text \in CacheTexts :
       (C17_Called("setTranslation", Hash(text, lang)) /\ ~MapHas(cache, Hash(text, lang))) =>
         C17_FifoInsert(cache, cache', Hash(text, lang)) /\ hashCache' = hashCache
  /\ \A text \in CacheTexts :
       C17_Called("getTranslation", Hash(text, lang)) =>
         hashCache' = hashCache /\ cache' = cache
C17_BoundedFifo ==
  [](Len(hashCache) <= MaxSize /\ Len(cache) <= MaxSize) /\ [][C17_Step]_vars
C17_Witness ==
  /\ lastCall.op = "setTranslation"
  /\ lastCall.evicted # NoKey
  /\ Len(cache) = MaxSize
  /\ ~MapHas(cache, lastCall.evicted)
  /\ cache[MaxSize].k = lastCall.key

(* C18, as stated: while a hash stays in the translation store the value   *)
(* read for it never changes, and its entry disappears only through an     *)
(* eviction, clearCache or a language switch.                              *)
C18_Disappears(h) ==
  (MapHas(cache, h) /\ ~MapHas(cache', h)) =>
    \/ lastCall'.op = "setTranslation" /\ lastCall'.evicted = h /\ Len(cache) >= MaxSize
    \/ lastCall'.op \in {"clearCache", "setLanguage"}
C18_Hashes == {Hash(t, l) : t \in CacheTexts, l \in Langs}
C18_ValueNeverChanges ==
  [][\A h \in C18_Hashes :
       /\ (MapHas(cache, h) /\ MapHas(cache', h)) => MapGet(cache', h) = MapGet(cache, h)
       /\ C18_Disappears(h)]_vars

(* C18, amended: the value read for a hash is the one most recently        *)
(* written for it by setTranslation: right after setTranslation(h, v) the  *)
(* store holds v for h, also when it held another value before, and the    *)
(* value of a held hash changes in no other step; an entry disappears only *)
(* through the eviction of the oldest key by a setTranslation at capacity, *)
(* clearCache or a language switch.                                        *)
C18_Step ==
  /\ (events' = events + 1 /\ lastCall'.op = "setTranslation") =>
       MapHas(cache', lastCall'.key) /\ MapGet(cache', lastCall'.key) = lastCall'.value
  /\ \A h \in C18_Hashes :
       /\ (MapHas(cache, h) /\ MapHas(cache', h) /\ MapGet(cache', h) # MapGet(cache, h)) =>
            lastCall'.op = "setTranslation" /\ lastCall'.key = h /\ events' = events + 1
       /\ C18_Disappears(h)
C18_LastWriteWins == [][C18_Step]_vars
C18_Witness ==
  /\ lastCall.op = "setTranslation"
  /\ lastCall.old \notin {NoKey, lastCall.value}
  /\ MapHas(cache, lastCall.key)
  /\ MapGet(cache, lastCall.key) = lastCall.value

-----------------------------------------------------------------------------
(* Claims about the public API *)

(* C19: while the mutation handler holds no observer (before start, and    *)
(* after stop until the next start) no batch of change notifications is    *)
(* handed over for processing and the accumulated set is not consumed,     *)
(* also when stop was called with nodes accumulated and the timer armed.   *)
C19_StopPauses ==
  [][~observer => emitted' = emitted /\ pendingMutations' = pendingMutations]_vars

C20_Requests(q) == {q[i] : i \in 1..Len(q)}
C20_Dispatched ==
  (C20_Requests(sendQueue') \cup UNION {C20_Requests(wire'[i]) : i \in 1..Len(wire')})
    \ C20_Requests(sendQueue)

(* C20, as stated: setLanguage leaves the sent set and both maps of the    *)
(* cache empty, and every request record dispatched (queued or sent) by a  *)
(* later step carries the hash of its text and the language then in force. *)
C20_SwitchResetsDedup ==
  [][/\ (\E l \in Langs : SetLanguage(l)) =>
          sentHashes' = {} /\ cache' = <<>> /\ hashCache' = <<>>
     /\ \A r \in C20_Dispatched : r.hash = Hash(r.text, lang')]_vars

(* The reset alone, which setLanguage does perform *)
C20_ResetOnly ==
  [][(\E l \in Langs : SetLanguage(l)) =>
       sentHashes' = {} /\ cache' = <<>> /\ hashCache' = <<>>]_vars

-----------------------------------------------------------------------------
(* Claims about malformed messages and the reconnect delay *)

(* C21, as stated (client side): a frame that fails to parse, and a        *)
(* translation_result lacking a field, closes nothing and leaves both maps *)
(* of the cache, the pending sets, the sent set and the outbound queue as  *)
(* they were.                                                              *)
C21_MalformedHarmless ==
  [][\A m \in Malformed :
       OnMalformed(m) =>
         UNCHANGED <<cache, hashCache, pendingNodes, sentHashes, sendQueue, dom, sock,
                     isConnected>>]_vars

(* C22: while the retry timer is armed its delay is                        *)
(* min(1000 * 2^n, 30000) ms, n being the number of reconnect attempts     *)
(* made since the last successful connect (or since construction); every   *)
(* attempt adds exactly one to reconnectAttempts and every onopen sets it   *)
(* to 0, so the first retry after a successful connection waits 1000 ms.    *)
C22_Step ==
  /\ RetryFire => reconnectAttempts' = reconnectAttempts + 1
  /\ OnOpen => reconnectAttempts' = 0
  /\ (OnClose /\ sock = "open") => retryDelay' = RetryBase
C22_Backoff ==
  /\ [](reconnectAttempts = sinceOpen)
  /\ []((sock = "waiting") => retryDelay = Min(RetryBase * Pow2(sinceOpen), RetryCap))
  /\ [][C22_Step]_vars

(* The fifth consecutive failure waits the cap, not 32000 ms *)
C22_Witness ==
  sock = "waiting" /\ sinceOpen = 5 /\ retryDelay = RetryCap /\ RetryBase * Pow2(5) > RetryCap

-----------------------------------------------------------------------------
(* Claims about applyTranslation *)

(* C23: an applyTranslation call on an item whose hash is in the cache     *)
(* writes the cached translation to the item's location and nothing else:  *)
(* pending sets, sent set and outbound queue are as before the call and    *)
(* the call sends nothing.                                                 *)
C23_HitHasNoNetworkEffect ==
  \A i \in 1..Len(applied) :
    LET a == applied[i]
    IN a.hit =>
         /\ a.after.dom = [a.before.dom EXCEPT ![a.item.loc] = a.cached]
         /\ a.after.pendingNodes = a.before.pendingNodes
         /\ a.after.sentHashes = a.before.sentHashes
         /\ a.after.sendQueue = a.before.sendQueue
         /\ a.after.out = a.before.out
C23_Witness ==
  \E i \in 1..Len(applied) :
    /\ applied[i].hit
    /\ isConnected
    /\ dom[applied[i].item.loc] = applied[i].cached
    /\ applied[i].cached # applied[i].before.dom[applied[i].item.loc]

C24_Request(a) ==
  [text |-> a.item.text, hash |-> a.item.hash, targetLang |-> lang]
C24_Queued(snap) ==
  {snap.sendQueue[i] : i \in 1..Len(snap.sendQueue)}
    \cup UNION {{snap.out[i][j] : j \in 1..Len(snap.out[i])} : i \in 1..Len(snap.out)}

-----------------------------------------------------------------------------
(* Claims about processing that is still suspended *)

(* C25: a notification that arrives while an earlier processPendingMutations *)
(* call has not returned leaves the batches being processed as they are,   *)
(* adds its nodes to the accumulation set, which that call emptied when it *)
(* took its batch, and arms a timer; whatever has accumulated has a timer  *)
(* armed for it, and the timer hands it over as a batch of its own, after  *)
(* the batches already being processed; a call that has not returned can   *)
(* always return.                                                          *)
C25_Step ==
  /\ \A nodes \in Notifications :
       (Notify(nodes) /\ processing # <<>>) =>
         /\ processing' = processing
         /\ pendingMutations' = pendingMutations \cup nodes
         /\ \E t \in timers' : t.due = now + DEBOUNCE_DELAY
  /\ \A t \in timers :
       (Fire(t) /\ pendingMutations # {}) =>
         /\ processing' = Append(processing, pendingMutations)
         /\ pendingMutations' = {}
C25_AccumulationNotBlocked ==
  /\ [][C25_Step]_vars
  /\ [](pendingMutations # {} => timers # {})
  /\ [](\A i \in 1..Len(processing) : ENABLED Processed(i))
(* The batch {n1} is still being processed when {n2}, notified after it    *)
(* was taken, has been handed over as a second batch                       *)
C25_Witness ==
  /\ processing = <<{"n1"}, {"n2"}>>
  /\ pendingMutations = {}
  /\ emitted = <<{"n2"}>>

-----------------------------------------------------------------------------
(* Claims about the server: dropped connections and target languages *)

C26_SentTo(c) == {k \in 1..Len(srvOut') : srvOut'[k].to = c}

(* C26: when translateText resolves for a task whose connection has        *)
(* closed, the translation is written to memoryCache under the item's hash *)
(* and nothing is sent on that connection; an entry of memoryCache is      *)
(* never removed; and a task started while memoryCache holds its hash,     *)
(* whichever connection pushed it, makes no provider call and is answered  *)
(* with the cached translation if its connection is open.                  *)
C26_Step ==
  /\ \A i \in 1..MaxTasks :
       (TranslateResolve(i) /\ ws[task[i].ws] # "open") =>
         /\ memoryCache'[task[i].item.hash] = Answer(task[i].item.text, task[i].targetLang)
         /\ C26_SentTo(task[i].ws) = {}
  /\ \A h \in Hashes : memoryCache[h] # Undefined => memoryCache'[h] = memoryCache[h]
  /\ \A j \in 1..MaxTasks :
       (/\ j \in TaskIds /\ task[j].pc = "queued" /\ task'[j].pc # "queued"
        /\ memoryCache[task[j].item.hash] # Undefined) =>
         /\ task'[j].pc = "done"
         /\ ws[task[j].ws] = "open" =>
              \E k \in C26_SentTo(task[j].ws) :
                srvOut'[k] = Result(task[j].ws, task[j].item, memoryCache[task[j].item.hash])
C26_CachedForLaterRequesters == [][C26_Step]_vars
(* A hash translated for a connection that had closed is served from the   *)
(* cache to another connection, with no provider call in flight            *)
C26_Witness ==
  \E x \in hitsServed :
    /\ x.hash \in undelivered
    /\ ws[x.ws] = "open"
    /\ \E c \in Conns : ws[c] = "closed"
    /\ \E k \in 1..Len(srvOut) :
         /\ srvOut[k].to = x.ws /\ srvOut[k].type = "translation_result"
         /\ srvOut[k].hash = x.hash /\ srvOut[k].translated = memoryCache[x.hash]
    /\ numRunning = 0

-----------------------------------------------------------------------------
(* Claims about the request records *)

C27_NoHashTwice(q) == \A i, j \in 1..Len(q) : q[i].hash = q[j].hash => i = j

(* C27, as stated: no two records of the outbound queue carry the same     *)
(* hash, and no batch sent carries a hash twice.                           *)
C27_QueueDedupByHash ==
  /\ C27_NoHashTwice(sendQueue)
  /\ \A k \in 1..Len(wire) : C27_NoHashTwice(wire[k])

C28_InQueue(h, snap) == \E i \in 1..Len(snap.sendQueue) : snap.sendQueue[i].hash = h

(* C28, as stated: a location is registered pending for a hash H only when *)
(* H is not yet in the sent set (so the call queues a request), or a       *)
(* request for H waits in the outbound queue, or H was sent and its result *)
(* has not been handled, which shows in locations still pending for H;     *)
(* never for a hash that is in the sent set and whose result has been      *)
(* handled already.                                                        *)
C28_PendingIsRecoverable ==
  \A i \in 1..Len(applied) :
    LET a == applied[i]
        H == a.item.hash
    IN (~a.hit /\ a.item.loc \in a.after.pendingNodes[H]) =>
         \/ H \notin a.before.sentHashes
         \/ C28_InQueue(H, a.before)
         \/ a.before.pendingNodes[H] # {}

(* C29, as stated: the task of every item carries the item's own           *)
(* targetLang to translateText, and what memoryCache holds under a hash is *)
(* the provider's answer for the text and the language the hash was made   *)
(* of.                                                                     *)
C29_PerItemTargetLang ==
  /\ \A i \in TaskIds :
       task[i].pc \in {"queued", "translate"} => task[i].targetLang = task[i].item.targetLang
  /\ \A text \in Texts, l \in Langs :
       memoryCache[Hash(text, l)] # Undefined => memoryCache[Hash(text, l)] = Answer(text, l)

C30_Consistent(q) == \A i \in 1..Len(q) : q[i].hash = Hash(q[i].text, q[i].targetLang)

(* C30, as stated: in every request record of the outbound queue, and of   *)
(* every batch sent, the hash is the hash of the record's own text and      *)
(* targetLang.                                                             *)
C30_RecordConsistent ==
  /\ C30_Consistent(sendQueue)
  /\ \A k \in 1..Len(wire) : C30_Consistent(wire[k])

-----------------------------------------------------------------------------
(* Claims about what the client writes *)

C31_LangOf(h) == h[Len(h)]

(* C31, as stated: a translation_result for a hash that was made for a     *)
(* language other than the one in force (a request dispatched before the   *)
(* last setLanguage) writes no location and puts nothing into the client's *)
(* translation cache.                                                      *)
C31_NoStaleLanguageWrite ==
  [][\A h \in Hashes, v \in Translations :
       (OnResult(h, v) /\ C31_LangOf(h) # lang) => dom' = dom /\ cache' = cache]_vars

(* C32, as stated: every value held in the client's translation cache      *)
(* begins with the marker prefix, and every step that changes the text of  *)
(* a location (placeholder, result, cached translation, custom             *)
(* translation) leaves there a text that begins with the prefix, which is  *)
(* what makes shouldTranslateText reject it at the next extraction.        *)
C32_NoFeedbackLoop ==
  /\ [](\A i \in 1..Len(cache) : StartsWith(cache[i].v, TRANSLATION_PREFIX))
  /\ [][\A loc \in Locs :
          dom'[loc] # dom[loc] => StartsWith(dom'[loc], TRANSLATION_PREFIX)]_vars

(* C33, as stated: a setTranslation(H, v) for a hash H the store already   *)
(* holds leaves the number of entries as it was and keeps every other      *)
(* entry with its value, also when the store is at capacity.               *)
C33_OverwriteDoesNotEvict ==
  [][(/\ events' = events + 1
      /\ lastCall'.op = "setTranslation"
      /\ MapHas(cache, lastCall'.key)) =>
       /\ Len(cache') = Len(cache)
       /\ \A i \in 1..Len(cache) :
            cache[i].k # lastCall'.key =>
              MapHas(cache', cache[i].k) /\ MapGet(cache', cache[i].k) = cache[i].v]_vars

====
